---- MODULE Spec2Model ----
(***************************************************************************)
(* The stdio request/response correlation client of the meeting agents     *)
(* and the registry that supervises the child processes.                   *)
(*                                                                         *)
(* Two client classes exist in the repository and both are modelled:       *)
(*   FixedMCPClient  (src/mcp_manager.py)  lock, put-back, read(1) reader   *)
(*   MCPClient       (src/app.py)          no lock, no put-back, readline   *)
(* The variable cls says which class the client under study is an          *)
(* instance of; it never changes.                                          *)
(*                                                                         *)
(* Time is counted in polling intervals (Queue.get(timeout=1)) and kept    *)
(* per caller: since_invoke (time since the call was made), elapsed        *)
(* (time.time() - start_time) and get_wait (time spent in the current      *)
(* Queue.get).  Time passes only inside the blocking calls: waiting for    *)
(* the lock and Queue.get.                                                 *)
(***************************************************************************)
EXTENDS Integers, Sequences, FiniteSets, TLC

\* ------------------------------------------------------------------ bounds
NumThreads == 2      \* concurrent callers of one client
MaxTime == 4         \* a call's clock stops here
MaxNoise == 1        \* lines the child writes that answer no request
MaxSpawns == 2       \* child processes spawned in one run of the registry
ShortTimeout == 2    \* the 60 s default of call_server_tool, in polling intervals (scaled)
LongTimeout == 3     \* the 300 s of transcribe_audio_file, in polling intervals (scaled)
MaxCloses == 2       \* calls of close() on one client
MaxRequests == 4     \* tools/call requests written in the runs with repeated calls
MaxEmit == 4         \* characters the child writes in the runs that study the reader

\* ------------------------------------------------------- program constants
PollInterval == 1    \* response_queue.get(timeout=1)

Threads == 1..NumThreads
FirstThread == CHOOSE t \in Threads : \A u \in Threads : t <= u
Fixed == "FixedMCPClient"
App == "MCPClient"
Classes == {Fixed, App}

VARIABLES
  cls,             \* the class of the client
  request_id,      \* self.request_id
  lock,            \* self.lock: 0 when free, else the thread holding it
  response_queue,  \* self.response_queue
  running,         \* self.running
  alive,           \* self.process.poll() is None
  stdin,           \* the request lines the child has received on its stdin
  stdout,          \* the characters the child wrote to stdout, not yet read
  emitted,         \* every character the child ever wrote to stdout
  buffer,          \* the reader's local buffer
  reader_pc,       \* the reader thread's position
  answered,        \* positions of stdin the child has answered
  noise,           \* number of unsolicited lines the child has written
  published,       \* every object the reader has put on the queue, in order
  pc,              \* each caller's position
  loc,             \* each caller's locals
  result,          \* each caller's return value
  closes,          \* number of close() calls made on the client
  init_pc,         \* the constructor's position: "new", "handshake", "sleep", "done"
  servers,         \* manager.servers: name -> the process of its entry, 0 when absent
  clients,         \* manager.clients: name -> the process its client wraps, 0 when absent
  procs,           \* each process: "none" (not spawned), "alive" or "dead"
  client_running,  \* client.running of the client that wraps each process
  client_lock,     \* client.lock of the client that wraps each process: 0 or its holder
  rpc,             \* each registry caller's position
  rloc,            \* each registry caller's locals
  ret              \* each registry caller's last return value

clientVars == <<request_id, lock, response_queue, running, alive, stdin, stdout, emitted,
                buffer, reader_pc, answered, noise, published, pc, loc, result, closes, init_pc>>
regVars == <<servers, clients, procs, client_running, client_lock, rpc, rloc, ret>>
vars == <<cls, clientVars, regVars>>

\* ------------------------------------------------------------ wire format
\* A line of the child's stdout is a sequence of characters.  The JSON texts
\* the model knows are "{}" (an object without id: a notification), "{d}"
\* (a result carrying id d), "{de}" (an error payload carrying id d) and
\* "d" (a number: a JSON value that is no object); every other text fails
\* to parse.
DigitChars == <<"0", "1", "2", "3", "4", "5", "6", "7", "8", "9">>
DigitSet == {DigitChars[i] : i \in 1..Len(DigitChars)}
DigitOf(k) == DigitChars[k + 1]
ValueOf(c) == (CHOOSE i \in 1..Len(DigitChars) : DigitChars[i] = c) - 1

Notification == [has_id |-> FALSE, id |-> 0, err |-> FALSE, is_obj |-> TRUE]
Response(k, e) == [has_id |-> TRUE, id |-> k, err |-> e, is_obj |-> TRUE]
\* what json.loads returns for a number: a value without .get
Scalar == [has_id |-> FALSE, id |-> 0, err |-> FALSE, is_obj |-> FALSE]

\* json.dumps of a message, as the child writes it
Dumps(m) ==
  IF ~m.has_id THEN <<"{", "}">>
  ELSE IF m.err THEN <<"{", DigitOf(m.id), "e", "}">>
  ELSE <<"{", DigitOf(m.id), "}">>

Whitespace == {" ", "\n"}
RECURSIVE LStrip(_)
LStrip(s) == IF s # <<>> /\ Head(s) \in Whitespace THEN LStrip(Tail(s)) ELSE s
RECURSIVE RStrip(_)
RStrip(s) == IF s # <<>> /\ s[Len(s)] \in Whitespace THEN RStrip(SubSeq(s, 1, Len(s) - 1)) ELSE s
\* str.strip()
Strip(s) == RStrip(LStrip(s))

\* json.loads succeeds
IsJson(s) ==
  \/ Len(s) = 1 /\ s[1] \in DigitSet
  \/ /\ Len(s) >= 2
     /\ s[1] = "{"
     /\ s[Len(s)] = "}"
     /\ LET inner == SubSeq(s, 2, Len(s) - 1) IN
          \/ inner = <<>>
          \/ Len(inner) = 1 /\ inner[1] \in DigitSet
          \/ Len(inner) = 2 /\ inner[1] \in DigitSet /\ inner[2] = "e"

\* json.loads of a text for which IsJson holds
Loads(s) ==
  LET inner == SubSeq(s, 2, Len(s) - 1) IN
    IF Len(s) = 1 THEN Scalar
    ELSE IF inner = <<>> THEN Notification
    ELSE Response(ValueOf(inner[1]), Len(inner) = 2)

\* the request envelopes
InitRequest == [id |-> 0, has_id |-> TRUE, method |-> "initialize", name |-> "", arguments |-> "dict"]
InitializedNotification ==
  [id |-> 0, has_id |-> FALSE, method |-> "notifications/initialized", name |-> "", arguments |-> "dict"]
ToolsCall(i, n, a) ==
  [id |-> i, has_id |-> TRUE, method |-> "tools/call", name |-> n, arguments |-> a]

\* ------------------------------------------------------------- arguments
\* The shapes a caller can pass as arguments: omitted/None, a non-empty
\* mapping, the empty mapping, a list, a string, a number.
ArgValues == {"None", "dict", "empty_dict", "list", "str", "int"}
IsDict(a) == a \in {"dict", "empty_dict"}

Tools == {"transcribe_audio_file", "list_transcriptions"}
TimeoutFor(tool_name) == IF tool_name = "transcribe_audio_file" THEN LongTimeout ELSE ShortTimeout

\* ---------------------------------------------------------------- results
NoMessage == [has_id |-> FALSE, id |-> 0, err |-> FALSE, is_obj |-> TRUE]
Pending == [kind |-> "pending", msg |-> NoMessage]
Success(m) == [kind |-> "response", msg |-> m]
McpError(m) == [kind |-> "mcp_error", msg |-> m]
TimeoutError == [kind |-> "timeout", msg |-> NoMessage]
CommunicationError == [kind |-> "communication_error", msg |-> NoMessage]

NoLocals ==
  [tool |-> "", given |-> "None", arguments |-> "None", timeout |-> 0, tmp |-> 0, wrote |-> FALSE,
   request |-> ToolsCall(0, "", "None"), response |-> NoMessage,
   elapsed |-> 0, get_wait |-> 0, since_invoke |-> 0, waited |-> FALSE,
   \* history: the position of the request on the wire, the requests this
   \* caller gave up on unanswered, those given up by anyone before this call
   index |-> 0, abandoned |-> {}, late |-> {}]

\* ------------------------------------------------------------------- Init
\* the two server types the smoke test knows, and the names a caller can pass
KnownNames == {"transcriber", "scheduler"}
Names == KnownNames \cup {"other"}
Pids == 1..MaxSpawns
NoRegLocals ==
  [op |-> "", name |-> "", process |-> 0, client |-> 0, untracked |-> FALSE, wrote |-> FALSE,
   test_response |-> "none", died |-> FALSE]

\* FixedMCPServerManager.__init__ / EnhancedMCPServerManager.__init__
RegistryInit ==
  /\ servers = [n \in Names |-> 0]
  /\ clients = [n \in Names |-> 0]
  /\ procs = [p \in Pids |-> "none"]
  /\ client_running = [p \in Pids |-> FALSE]
  /\ client_lock = [p \in Pids |-> 0]
  /\ rpc = [r \in Threads |-> "idle"]
  /\ rloc = [r \in Threads |-> NoRegLocals]
  /\ ret = [r \in Threads |-> "none"]

\* the client after its constructor
ClientInit ==
  /\ request_id = 0
  /\ lock = 0
  /\ response_queue = <<>>
  /\ running = TRUE
  /\ alive = TRUE
  /\ stdin = IF cls = Fixed THEN <<InitRequest, InitializedNotification>> ELSE <<>>
  /\ stdout = <<>>
  /\ emitted = <<>>
  /\ buffer = <<>>
  /\ reader_pc = "poll"
  /\ answered = {}
  /\ noise = 0
  /\ published = <<>>
  /\ pc = [t \in Threads |-> "idle"]
  /\ loc = [t \in Threads |-> NoLocals]
  /\ result = [t \in Threads |-> Pending]
  /\ closes = 0
  /\ init_pc = "done"

Init == cls \in Classes /\ ClientInit /\ RegistryInit

\* ------------------------------------------------- argument normalisation
\* FixedMCPServerManager.call_server_tool: only None is replaced
Fixed_call_server_tool_arguments(a) == IF a = "None" THEN "empty_dict" ELSE a
\* EnhancedMCPServerManager.call_server_tool: None and every non-dict are replaced
Enhanced_call_server_tool_arguments(a) ==
  LET a1 == IF a = "None" THEN "empty_dict" ELSE a IN
    IF ~IsDict(a1) THEN "empty_dict" ELSE a1
\* FixedMCPClient.call_tool: only None is replaced
Fixed_call_tool_arguments(a) == IF a = "None" THEN "empty_dict" ELSE a
\* MCPClient.call_tool: None and every non-dict are replaced
App_call_tool_arguments(a) ==
  LET a1 == IF a = "None" THEN "empty_dict" ELSE a IN
    IF ~IsDict(a1) THEN "empty_dict" ELSE a1

\* ---------------------------------------------------------------- callers
\* a return statement that leaves the lock as it is
ReturnKeepsLock(t, r, l) ==
  /\ pc' = [pc EXCEPT ![t] = "done"]
  /\ result' = [result EXCEPT ![t] = r]
  /\ loc' = [loc EXCEPT ![t] = l]
  /\ lock' = lock

\* a return statement of call_tool; leaving the with block releases the lock
Return(t, r, l) ==
  /\ pc' = [pc EXCEPT ![t] = "done"]
  /\ result' = [result EXCEPT ![t] = r]
  /\ loc' = [loc EXCEPT ![t] = l]
  /\ lock' = IF lock = t THEN 0 ELSE lock

\* call_server_tool(server_name, tool_name, arguments) on a server whose
\* client is registered (the other case is call_server_tool below):
\* normalise, select the timeout, delegate to the client
call_server_tool_registered(t, tool_name, arguments) ==
  /\ pc[t] = "idle"
  /\ pc' = [pc EXCEPT ![t] = "call_tool"]
  /\ loc' = [loc EXCEPT ![t] =
       [@ EXCEPT !.tool = tool_name,
                 !.given = arguments,
                 !.arguments = IF cls = Fixed
                               THEN Fixed_call_server_tool_arguments(arguments)
                               ELSE Enhanced_call_server_tool_arguments(arguments),
                 !.timeout = TimeoutFor(tool_name),
                 !.since_invoke = 0]]
  /\ UNCHANGED regVars
  /\ UNCHANGED <<cls, closes, init_pc, request_id, lock, response_queue, running, alive, stdin, stdout, emitted,
                 buffer, reader_pc, answered, noise, published, result>>

\* client.call_tool(tool_name, arguments, timeout) called directly
call_tool(t, tool_name, arguments, timeout) ==
  /\ pc[t] = "idle"
  /\ pc' = [pc EXCEPT ![t] = "call_tool"]
  /\ loc' = [loc EXCEPT ![t] =
       [@ EXCEPT !.tool = tool_name,
                 !.given = arguments,
                 !.arguments = arguments,
                 !.timeout = timeout,
                 !.since_invoke = 0]]
  /\ UNCHANGED regVars
  /\ UNCHANGED <<cls, closes, init_pc, request_id, lock, response_queue, running, alive, stdin, stdout, emitted,
                 buffer, reader_pc, answered, noise, published, result>>

\* FixedMCPClient.call_tool: with self.lock
Acquire(t) ==
  /\ cls = Fixed
  /\ pc[t] = "call_tool"
  /\ lock = 0
  /\ lock' = t
  /\ pc' = [pc EXCEPT ![t] = "alloc"]
  /\ UNCHANGED regVars
  /\ UNCHANGED <<cls, closes, init_pc, request_id, response_queue, running, alive, stdin, stdout, emitted,
                 buffer, reader_pc, answered, noise, published, loc, result>>

\* an allocation that hands out the current value before incrementing it
AllocFromZero(t) ==
  /\ cls = Fixed
  /\ pc[t] = "alloc"
  /\ request_id' = request_id + 1
  /\ LET a == Fixed_call_tool_arguments(loc[t].arguments) IN
       loc' = [loc EXCEPT ![t] =
         [@ EXCEPT !.arguments = a,
                   !.request = ToolsCall(request_id, loc[t].tool, a)]]
  /\ pc' = [pc EXCEPT ![t] = "send"]
  /\ UNCHANGED regVars
  /\ UNCHANGED <<cls, closes, init_pc, lock, response_queue, running, alive, stdin, stdout, emitted,
                 buffer, reader_pc, answered, noise, published, result>>

\* FixedMCPClient.call_tool: self.request_id += 1 and the request envelope
Alloc(t) ==
  /\ cls = Fixed
  /\ pc[t] = "alloc"
  /\ request_id' = request_id + 1
  /\ LET a == Fixed_call_tool_arguments(loc[t].arguments) IN
       loc' = [loc EXCEPT ![t] =
         [@ EXCEPT !.arguments = a,
                   !.request = ToolsCall(request_id + 1, loc[t].tool, a)]]
  /\ pc' = [pc EXCEPT ![t] = "send"]
  /\ UNCHANGED regVars
  /\ UNCHANGED <<cls, closes, init_pc, lock, response_queue, running, alive, stdin, stdout, emitted,
                 buffer, reader_pc, answered, noise, published, result>>

\* MCPClient.call_tool: self.request_id += 1, the load of the attribute
IncLoad(t) ==
  /\ cls = App
  /\ pc[t] = "call_tool"
  /\ loc' = [loc EXCEPT ![t].tmp = request_id]
  /\ pc' = [pc EXCEPT ![t] = "inc_store"]
  /\ UNCHANGED regVars
  /\ UNCHANGED <<cls, closes, init_pc, request_id, lock, response_queue, running, alive, stdin, stdout, emitted,
                 buffer, reader_pc, answered, noise, published, result>>

\* MCPClient.call_tool: self.request_id += 1, the store of the attribute
IncStore(t) ==
  /\ cls = App
  /\ pc[t] = "inc_store"
  /\ request_id' = loc[t].tmp + 1
  /\ pc' = [pc EXCEPT ![t] = "build"]
  /\ UNCHANGED regVars
  /\ UNCHANGED <<cls, closes, init_pc, lock, response_queue, running, alive, stdin, stdout, emitted,
                 buffer, reader_pc, answered, noise, published, loc, result>>

\* MCPClient.call_tool: the request envelope, "id": self.request_id
Build(t) ==
  /\ cls = App
  /\ pc[t] = "build"
  /\ LET a == App_call_tool_arguments(loc[t].arguments) IN
       loc' = [loc EXCEPT ![t] =
         [@ EXCEPT !.arguments = a,
                   !.request = ToolsCall(request_id, loc[t].tool, a)]]
  /\ pc' = [pc EXCEPT ![t] = "send"]
  /\ UNCHANGED regVars
  /\ UNCHANGED <<cls, closes, init_pc, request_id, lock, response_queue, running, alive, stdin, stdout, emitted,
                 buffer, reader_pc, answered, noise, published, result>>

\* stdin.write(request_json): the pipe of a dead child is broken, the
\* exception is caught by call_tool's except and becomes an error result
Send(t) ==
  /\ pc[t] = "send"
  /\ IF alive
     THEN /\ stdin' = Append(stdin, loc[t].request)
          /\ loc' = [loc EXCEPT ![t] = [@ EXCEPT !.wrote = TRUE, !.index = Len(stdin) + 1]]
          /\ pc' = [pc EXCEPT ![t] = "flush"]
          /\ UNCHANGED <<lock, result>>
     ELSE /\ Return(t, CommunicationError, loc[t])
          /\ UNCHANGED stdin
  /\ UNCHANGED regVars
  /\ UNCHANGED <<cls, closes, init_pc, request_id, response_queue, running, alive, stdout, emitted,
                 buffer, reader_pc, answered, noise, published>>

\* stdin.flush(), then start_time = time.time()
Flush(t) ==
  /\ pc[t] = "flush"
  /\ loc' = [loc EXCEPT ![t] = [@ EXCEPT !.elapsed = 0, !.waited = TRUE]]
  /\ pc' = [pc EXCEPT ![t] = "loop"]
  /\ UNCHANGED regVars
  /\ UNCHANGED <<cls, closes, init_pc, request_id, lock, response_queue, running, alive, stdin, stdout, emitted,
                 buffer, reader_pc, answered, noise, published, result>>

\* while time.time() - start_time < timeout
LoopCondition(t) == loc[t].elapsed < loc[t].timeout

\* a loop that terminates the child when the timeout expires
LoopKills(t) ==
  /\ pc[t] = "loop"
  /\ IF LoopCondition(t)
     THEN /\ pc' = [pc EXCEPT ![t] = "get"]
          /\ loc' = [loc EXCEPT ![t].get_wait = 0]
          /\ UNCHANGED <<lock, result, alive>>
     ELSE /\ Return(t, TimeoutError,
                    [loc[t] EXCEPT !.abandoned = @ \cup ({loc[t].index} \ answered)])
          /\ alive' = FALSE
  /\ UNCHANGED regVars
  /\ UNCHANGED <<cls, closes, init_pc, request_id, response_queue, running, stdin, stdout, emitted,
                 buffer, reader_pc, answered, noise, published>>

\* the loop test; after the loop, the timeout error
Loop(t) ==
  /\ pc[t] = "loop"
  /\ IF LoopCondition(t)
     THEN /\ pc' = [pc EXCEPT ![t] = "get"]
          /\ loc' = [loc EXCEPT ![t].get_wait = 0]
          /\ UNCHANGED <<lock, result>>
     ELSE Return(t, TimeoutError,
                 [loc[t] EXCEPT !.abandoned = @ \cup ({loc[t].index} \ answered)])
  /\ UNCHANGED regVars
  /\ UNCHANGED <<cls, closes, init_pc, request_id, response_queue, running, alive, stdin, stdout, emitted,
                 buffer, reader_pc, answered, noise, published>>

\* response_queue.get(timeout=1) returns an item
GetItem(t) ==
  /\ pc[t] = "get"
  /\ response_queue # <<>>
  /\ loc' = [loc EXCEPT ![t].response = Head(response_queue)]
  /\ response_queue' = Tail(response_queue)
  /\ pc' = [pc EXCEPT ![t] = "match"]
  /\ UNCHANGED regVars
  /\ UNCHANGED <<cls, closes, init_pc, request_id, lock, running, alive, stdin, stdout, emitted,
                 buffer, reader_pc, answered, noise, published, result>>

\* response_queue.get(timeout=1) raises Empty after the polling interval
GetEmpty(t) ==
  /\ pc[t] = "get"
  /\ response_queue = <<>>
  /\ loc[t].get_wait >= PollInterval
  /\ pc' = [pc EXCEPT ![t] = "loop"]
  /\ UNCHANGED regVars
  /\ UNCHANGED <<cls, closes, init_pc, request_id, lock, response_queue, running, alive, stdin, stdout, emitted,
                 buffer, reader_pc, answered, noise, published, loc, result>>

\* response.get("id") == self.request_id
IsOurs(m) == m.has_id /\ m.id = request_id

\* a match that returns every matched message as it is
MatchedRaw(m) == Success(m)

\* the value returned for the matched message
Matched(m) == IF m.err THEN McpError(m) ELSE Success(m)

\* FixedMCPClient.call_tool: the match, else the message is put back
FixedMatch(t) ==
  /\ cls = Fixed
  /\ pc[t] = "match"
  /\ IF ~loc[t].response.is_obj
     THEN \* response.get raises AttributeError, caught by the except
          /\ Return(t, CommunicationError, loc[t])
          /\ UNCHANGED response_queue
     ELSE IF IsOurs(loc[t].response)
     THEN /\ Return(t, Matched(loc[t].response), loc[t])
          /\ UNCHANGED response_queue
     ELSE /\ response_queue' = Append(response_queue, loc[t].response)
          /\ pc' = [pc EXCEPT ![t] = "loop"]
          /\ UNCHANGED <<lock, loc, result>>
  /\ UNCHANGED regVars
  /\ UNCHANGED <<cls, closes, init_pc, request_id, running, alive, stdin, stdout, emitted,
                 buffer, reader_pc, answered, noise, published>>

\* MCPClient.call_tool: the match, else the message is dropped
AppMatch(t) ==
  /\ cls = App
  /\ pc[t] = "match"
  /\ IF ~loc[t].response.is_obj
     THEN \* response.get raises AttributeError, caught by the except
          Return(t, CommunicationError, loc[t])
     ELSE IF IsOurs(loc[t].response)
     THEN Return(t, Matched(loc[t].response), loc[t])
     ELSE /\ pc' = [pc EXCEPT ![t] = "loop"]
          /\ UNCHANGED <<lock, loc, result>>
  /\ UNCHANGED regVars
  /\ UNCHANGED <<cls, closes, init_pc, request_id, response_queue, running, alive, stdin, stdout, emitted,
                 buffer, reader_pc, answered, noise, published>>

\* ------------------------------------------------------------------ child
NoiseLines == {<<"x">>, <<"{", "1">>, <<>>, <<"{", "}", " ">>}

\* the child answers one request it has received, in any order
ChildRespond(errs) ==
  /\ alive
  /\ \E i \in (1..Len(stdin)) \ answered :
       /\ stdin[i].has_id
       /\ \E e \in (IF stdin[i].method = "tools/call" THEN errs ELSE {FALSE}) :
            /\ stdout' = stdout \o Dumps(Response(stdin[i].id, e)) \o <<"\n">>
            /\ emitted' = emitted \o Dumps(Response(stdin[i].id, e)) \o <<"\n">>
       /\ answered' = answered \cup {i}
  /\ UNCHANGED regVars
  /\ UNCHANGED <<cls, closes, init_pc, request_id, lock, response_queue, running, alive, stdin,
                 buffer, reader_pc, noise, published, pc, loc, result>>

\* the child writes a line that answers nothing
ChildNoise ==
  /\ alive
  /\ noise < MaxNoise
  /\ \E l \in NoiseLines :
       /\ stdout' = stdout \o l \o <<"\n">>
       /\ emitted' = emitted \o l \o <<"\n">>
  /\ noise' = noise + 1
  /\ UNCHANGED regVars
  /\ UNCHANGED <<cls, closes, init_pc, request_id, lock, response_queue, running, alive, stdin,
                 buffer, reader_pc, answered, published, pc, loc, result>>

\* the child process exits on its own
ChildExit ==
  /\ alive
  /\ alive' = FALSE
  /\ UNCHANGED regVars
  /\ UNCHANGED <<cls, closes, init_pc, request_id, lock, response_queue, running, stdin, stdout, emitted,
                 buffer, reader_pc, answered, noise, published, pc, loc, result>>

\* ----------------------------------------------------------------- reader
\* a loop test that looks at self.running only
ReaderPollIgnoresExit ==
  /\ reader_pc = "poll"
  /\ reader_pc' = IF running THEN "read" ELSE "stopped"
  /\ UNCHANGED regVars
  /\ UNCHANGED <<cls, closes, init_pc, request_id, lock, response_queue, running, alive, stdin, stdout, emitted,
                 buffer, answered, noise, published, pc, loc, result>>

\* while self.running and self.process.poll() is None
ReaderPoll ==
  /\ reader_pc = "poll"
  /\ reader_pc' = IF running /\ alive THEN "read" ELSE "stopped"
  /\ UNCHANGED regVars
  /\ UNCHANGED <<cls, closes, init_pc, request_id, lock, response_queue, running, alive, stdin, stdout, emitted,
                 buffer, answered, noise, published, pc, loc, result>>

\* a reader that puts an empty object on the queue for a line it cannot parse
PublishPlaceholder(line) ==
  /\ response_queue' = Append(response_queue, IF IsJson(line) THEN Loads(line) ELSE Notification)
  /\ published' = Append(published, IF IsJson(line) THEN Loads(line) ELSE Notification)

\* json.loads(line) inside try/except JSONDecodeError: put, or discard
Publish(line) ==
  IF IsJson(line)
  THEN /\ response_queue' = Append(response_queue, Loads(line))
       /\ published' = Append(published, Loads(line))
  ELSE UNCHANGED <<response_queue, published>>

\* FixedMCPClient._read_responses: response.get('id', 'notification') in the
\* log call after the put raises AttributeError for a parsed value that is
\* no object; the outer except logs it and breaks out of the loop
GetRaises(line) == IsJson(line) /\ ~Loads(line).is_obj

\* FixedMCPClient._read_responses: one pass of the loop body, read(1)
FixedRead ==
  /\ cls = Fixed
  /\ reader_pc = "read"
  /\ IF stdout # <<>>
     THEN /\ stdout' = Tail(stdout)
          /\ IF Head(stdout) = "\n"
             THEN /\ buffer' = <<>>
                  /\ IF Strip(buffer) # <<>>
                     THEN Publish(Strip(buffer))
                     ELSE UNCHANGED <<response_queue, published>>
             ELSE /\ buffer' = Append(buffer, Head(stdout))
                  /\ UNCHANGED <<response_queue, published>>
     ELSE /\ ~alive
          /\ UNCHANGED <<stdout, buffer, response_queue, published>>
  /\ reader_pc' = IF stdout # <<>> /\ Head(stdout) = "\n" /\ GetRaises(Strip(buffer))
                  THEN "stopped" ELSE "poll"
  /\ UNCHANGED regVars
  /\ UNCHANGED <<cls, closes, init_pc, request_id, lock, running, alive, stdin, emitted,
                 answered, noise, pc, loc, result>>

\* the position of the first newline of a sequence that holds one
FirstNewline(s) == CHOOSE i \in 1..Len(s) : s[i] = "\n" /\ \A j \in 1..(i - 1) : s[j] # "\n"
HasNewline(s) == \E i \in 1..Len(s) : s[i] = "\n"

\* MCPClient._read_responses: one pass of the loop body, readline()
AppRead ==
  /\ cls = App
  /\ reader_pc = "read"
  /\ IF HasNewline(stdout)
     THEN /\ stdout' = SubSeq(stdout, FirstNewline(stdout) + 1, Len(stdout))
          /\ Publish(Strip(SubSeq(stdout, 1, FirstNewline(stdout))))
     ELSE /\ ~alive
          /\ stdout' = <<>>
          /\ IF stdout # <<>>
             THEN Publish(Strip(stdout))
             ELSE UNCHANGED <<response_queue, published>>
  /\ reader_pc' = "poll"
  /\ UNCHANGED regVars
  /\ UNCHANGED <<cls, closes, init_pc, request_id, lock, running, alive, stdin, emitted, buffer,
                 answered, noise, pc, loc, result>>

\* ------------------------------------------------------------------ clock
\* time passes only while every caller is idle, done, or inside a blocking
\* call (waiting for the lock, or inside Queue.get before its deadline)
CanWait(t) ==
  \/ pc[t] \in {"idle", "done"}
  \/ pc[t] = "call_tool" /\ cls = Fixed /\ lock # 0
  \/ pc[t] = "get" /\ loc[t].get_wait < PollInterval

Active(t) == pc[t] \notin {"idle", "done"}
Waiting(t) == pc[t] \in {"loop", "get", "match"}

Tick ==
  /\ \E t \in Threads : Active(t)
  /\ \A t \in Threads : CanWait(t) /\ (Active(t) => loc[t].since_invoke < MaxTime)
  /\ loc' = [t \in Threads |->
       IF ~Active(t) THEN loc[t]
       ELSE [loc[t] EXCEPT
               !.since_invoke = @ + 1,
               !.elapsed = IF Waiting(t) THEN @ + 1 ELSE @,
               !.get_wait = IF pc[t] = "get" THEN @ + 1 ELSE @]]
  /\ UNCHANGED regVars
  /\ UNCHANGED <<cls, closes, init_pc, request_id, lock, response_queue, running, alive, stdin, stdout, emitted,
                 buffer, reader_pc, answered, noise, published, pc, result>>

\* ------------------------------------------------------------------- Next
Call ==
  \E t \in Threads :
    \/ Acquire(t) \/ Alloc(t)
    \/ IncLoad(t) \/ IncStore(t) \/ Build(t)
    \/ Send(t) \/ Flush(t) \/ Loop(t) \/ GetItem(t) \/ GetEmpty(t)
    \/ FixedMatch(t) \/ AppMatch(t)
Reader == ReaderPoll \/ FixedRead \/ AppRead

\* Concurrent callers of one client; the child answers in any order or exits.
Invoke == \E t \in Threads : \E tool_name \in Tools : call_server_tool_registered(t, tool_name, "dict")
Next == Invoke \/ Call \/ ChildRespond({FALSE}) \/ ChildExit \/ Reader \/ Tick

Spec == Init /\ [][Next]_vars

\* One caller, every shape of arguments; the child answers with a result or
\* an error payload and writes lines that answer nothing.
InvokeOne ==
  \E tool_name \in Tools : \E a \in ArgValues :
    \/ call_server_tool_registered(FirstThread, tool_name, a)
    \/ call_tool(FirstThread, tool_name, a, ShortTimeout)
NextOne == InvokeOne \/ Call \/ ChildRespond(BOOLEAN) \/ ChildNoise \/ ChildExit \/ Reader \/ Tick

SpecOne == Init /\ [][NextOne]_vars

\* ---------------------------------------------------------- repeated calls
\* a caller whose call has returned gets ready for its next call
NextCall(t) ==
  /\ pc[t] = "done"
  /\ Len(stdin) < MaxRequests + (IF cls = Fixed THEN 2 ELSE 0)
  /\ pc' = [pc EXCEPT ![t] = "idle"]
  /\ result' = [result EXCEPT ![t] = Pending]
  /\ loc' = [loc EXCEPT ![t] =
       [NoLocals EXCEPT !.abandoned = loc[t].abandoned,
                        !.late = UNION {loc[u].abandoned : u \in Threads}]]
  /\ UNCHANGED regVars
  /\ UNCHANGED <<cls, closes, init_pc, request_id, lock, response_queue, running, alive, stdin, stdout, emitted,
                 buffer, reader_pc, answered, noise, published>>

\* the request of a first call of list_transcriptions
FirstCall == ToolsCall(1, "list_transcriptions", "dict")

\* The client after a first call by the first caller that the child answered
\* at once, made while every other caller had entered call_tool: on
\* MCPClient the other caller has loaded self.request_id (0 then) and not
\* yet stored it, on FixedMCPClient it is about to take the lock.
RepeatInit ==
  /\ request_id = 1
  /\ lock = 0
  /\ response_queue = <<>>
  /\ running = TRUE
  /\ alive = TRUE
  /\ stdin = (IF cls = Fixed THEN <<InitRequest, InitializedNotification>> ELSE <<>>) \o <<FirstCall>>
  /\ stdout = <<>>
  /\ emitted = Dumps(Response(1, FALSE)) \o <<"\n">>
  /\ buffer = <<>>
  /\ reader_pc = "poll"
  /\ answered = {Len(stdin)}
  /\ noise = 0
  /\ published = <<Response(1, FALSE)>>
  /\ pc = [t \in Threads |-> IF t = FirstThread THEN "idle"
                            ELSE IF cls = Fixed THEN "call_tool" ELSE "inc_store"]
  /\ loc = [t \in Threads |->
       IF t = FirstThread THEN NoLocals
       ELSE [NoLocals EXCEPT !.tool = "list_transcriptions", !.given = "dict",
                             !.arguments = "dict",
                             !.timeout = TimeoutFor("list_transcriptions")]]
  /\ result = [t \in Threads |-> Pending]
  /\ closes = 0
  /\ init_pc = "done"

InitRepeat == cls \in Classes /\ RepeatInit /\ RegistryInit

\* The first caller calls again and again on one client while the other
\* callers make one call each; the child answers every request at some
\* moment of its choice and stays alive.
InvokeRepeat == \E t \in Threads : call_server_tool_registered(t, "list_transcriptions", "dict")
NextRepeat ==
  \/ InvokeRepeat \/ NextCall(FirstThread)
  \/ Call \/ ChildRespond({FALSE}) \/ Reader \/ Tick

SpecRepeat == InitRepeat /\ [][NextRepeat]_vars

\* ------------------------------------------------------------- fair callers
\* the steps of call_tool taken by caller t
CallOf(t) ==
  \/ Acquire(t) \/ Alloc(t)
  \/ IncLoad(t) \/ IncStore(t) \/ Build(t)
  \/ Send(t) \/ Flush(t) \/ Loop(t) \/ GetItem(t) \/ GetEmpty(t)
  \/ FixedMatch(t) \/ AppMatch(t)

\* the clock, not stopped at the end of the window in which the time since
\* the invocation is observed: that counter stays at MaxTime
TickOn ==
  /\ \E t \in Threads : Active(t)
  /\ \A t \in Threads : CanWait(t)
  /\ loc' = [t \in Threads |->
       IF ~Active(t) THEN loc[t]
       ELSE [loc[t] EXCEPT
               !.since_invoke = IF @ < MaxTime THEN @ + 1 ELSE @,
               !.elapsed = IF Waiting(t) THEN @ + 1 ELSE @,
               !.get_wait = IF pc[t] = "get" THEN @ + 1 ELSE @]]
  /\ UNCHANGED regVars
  /\ UNCHANGED <<cls, closes, init_pc, request_id, lock, response_queue, running, alive, stdin, stdout, emitted,
                 buffer, reader_pc, answered, noise, published, pc, result>>

\* Concurrent callers of one client whose threads are scheduled fairly while
\* time passes; the child answers with a result or an error payload, late,
\* never, or exits.  Nothing is assumed of the child or of the reader.
InvokeFair == \E t \in Threads : call_server_tool_registered(t, "list_transcriptions", "dict")
NextFair == InvokeFair \/ Call \/ ChildRespond(BOOLEAN) \/ ChildExit \/ Reader \/ TickOn

SpecFair ==
  /\ Init /\ [][NextFair]_vars
  /\ \A t \in Threads : WF_vars(CallOf(t))
  /\ SF_vars(TickOn)

\* ------------------------------------------------------------------ close
\* a close() that leaves self.running as it was
closeKeepsRunning ==
  /\ closes < MaxCloses
  /\ closes' = closes + 1
  /\ alive' = IF alive THEN FALSE ELSE alive
  /\ UNCHANGED regVars
  /\ UNCHANGED <<cls, init_pc, running, request_id, lock, response_queue, stdin, stdout, emitted,
                 buffer, reader_pc, answered, noise, published, pc, loc, result>>

\* FixedMCPClient.close / MCPClient.close: self.running = False; a child that
\* is still alive gets its stdin closed and is terminated (killed when it
\* has not exited after the wait); every exception is swallowed
close ==
  /\ closes < MaxCloses
  /\ closes' = closes + 1
  /\ running' = FALSE
  /\ alive' = IF alive THEN FALSE ELSE alive
  /\ UNCHANGED regVars
  /\ UNCHANGED <<cls, init_pc, request_id, lock, response_queue, stdin, stdout, emitted,
                 buffer, reader_pc, answered, noise, published, pc, loc, result>>

\* One caller of one client that is closed at any moment, more than once;
\* the child answers with a result or an error payload, or exits.
InvokeClose == \E tool_name \in Tools : call_server_tool_registered(FirstThread, tool_name, "dict")
NextClose == InvokeClose \/ Call \/ ChildRespond(BOOLEAN) \/ ChildExit \/ Reader \/ Tick \/ close

SpecClose == Init /\ [][NextClose]_vars

\* ----------------------------------------------------------- reader alone
\* The characters a child can write: the model's JSON texts, text that does
\* not parse, blanks and newlines.
Alphabet == {"{", "}", "1", " ", "\n"}

\* the child writes one more character: the stream reaches the reader in
\* every possible split
ChildWrite ==
  /\ alive
  /\ Len(emitted) < MaxEmit
  /\ \E c \in Alphabet :
       /\ stdout' = Append(stdout, c)
       /\ emitted' = Append(emitted, c)
  /\ UNCHANGED regVars
  /\ UNCHANGED <<cls, closes, init_pc, request_id, lock, response_queue, running, alive, stdin,
                 buffer, reader_pc, answered, noise, published, pc, loc, result>>

\* The reader thread of one client whose child writes any stream, exits at
\* any moment or is closed.  The thread is scheduled fairly.
NextReader == ChildWrite \/ ChildExit \/ Reader \/ close

SpecReader == Init /\ [][NextReader]_vars /\ WF_vars(Reader)

\* ------------------------------------------------------------ construction
\* the state before the client object exists: the child has been spawned
ConstructInit ==
  /\ request_id = 0
  /\ lock = 0
  /\ response_queue = <<>>
  /\ running = FALSE
  /\ alive = TRUE
  /\ stdin = <<>>
  /\ stdout = <<>>
  /\ emitted = <<>>
  /\ buffer = <<>>
  /\ reader_pc = "unstarted"
  /\ answered = {}
  /\ noise = 0
  /\ published = <<>>
  /\ pc = [t \in Threads |-> "idle"]
  /\ loc = [t \in Threads |-> NoLocals]
  /\ result = [t \in Threads |-> Pending]
  /\ closes = 0
  /\ init_pc = "new"

\* FixedMCPClient.__init__ / MCPClient.__init__: the fields, running = True,
\* the reader thread started; FixedMCPClient goes on to _initialize_server
construct ==
  /\ init_pc = "new"
  /\ running' = TRUE
  /\ reader_pc' = "poll"
  /\ init_pc' = IF cls = Fixed THEN "handshake" ELSE "done"
  /\ UNCHANGED regVars
  /\ UNCHANGED <<cls, closes, request_id, lock, response_queue, alive, stdin, stdout, emitted,
                 buffer, answered, noise, published, pc, loc, result>>

\* an _initialize_server whose failed write leaves the constructor by the
\* exception
InitializeRaises ==
  /\ init_pc = "handshake"
  /\ stdin' = IF alive THEN Append(stdin, InitRequest) ELSE stdin
  /\ init_pc' = IF alive THEN "sleep" ELSE "failed"
  /\ UNCHANGED regVars
  /\ UNCHANGED <<cls, closes, request_id, lock, response_queue, running, alive, stdout, emitted,
                 buffer, reader_pc, answered, noise, published, pc, loc, result>>

\* FixedMCPClient._initialize_server: the initialize request with id 0 is
\* written and flushed; a write to a child that has exited raises, the
\* except clause logs it and the method returns
Initialize ==
  /\ init_pc = "handshake"
  /\ stdin' = IF alive THEN Append(stdin, InitRequest) ELSE stdin
  /\ init_pc' = IF alive THEN "sleep" ELSE "done"
  /\ UNCHANGED regVars
  /\ UNCHANGED <<cls, closes, request_id, lock, response_queue, running, alive, stdout, emitted,
                 buffer, reader_pc, answered, noise, published, pc, loc, result>>

\* FixedMCPClient._initialize_server after time.sleep(2): the initialized
\* notification is written; a failed write is logged in the same way
Initialized ==
  /\ init_pc = "sleep"
  /\ stdin' = IF alive THEN Append(stdin, InitializedNotification) ELSE stdin
  /\ init_pc' = "done"
  /\ UNCHANGED regVars
  /\ UNCHANGED <<cls, closes, request_id, lock, response_queue, running, alive, stdout, emitted,
                 buffer, reader_pc, answered, noise, published, pc, loc, result>>

\* One client from its construction on: tool calls are made one after the
\* other on the constructed client; the child answers or exits at any moment.
InvokeConstructed ==
  /\ init_pc = "done"
  /\ \E t \in Threads : \E tool_name \in Tools :
       /\ \A u \in Threads : ~Active(u)
       /\ call_server_tool_registered(t, tool_name, "dict")
NextConstruct ==
  \/ construct \/ Initialize \/ Initialized
  \/ InvokeConstructed \/ Call \/ ChildRespond({FALSE}) \/ ChildExit \/ Reader \/ Tick

InitNew == cls \in Classes /\ ConstructInit /\ RegistryInit

SpecConstruct == InitNew /\ [][NextConstruct]_vars

\* =============================================================== registry
\* FixedMCPServerManager (cls = Fixed) and EnhancedMCPServerManager (cls = App).
\* A client is identified by the process it wraps.  A call that reaches the
\* client is followed through lock, write and return; what the child
\* answers is any of the outcomes call_tool can return.
Tracked(n) == servers[n] # 0
HasClient(n) == clients[n] # 0
\* process.poll() is None
IsAlive(p) == procs[p] = "alive"
\* the 'status' field of a name's entry: written once, 'running', when the
\* entry is stored and never written again; a name without entry is stopped
EntryStatus(n) == IF Tracked(n) THEN "running" ELSE "stopped"

\* _cleanup_server: terminate (kill after the wait) a live process
CleanupProcs(n) ==
  IF Tracked(n) /\ IsAlive(servers[n]) THEN [procs EXCEPT ![servers[n]] = "dead"] ELSE procs
\* a _cleanup_server that empties the servers map
CleanupServersAll(n) == [m \in Names |-> 0]
\* a _cleanup_server that keeps the entry
CleanupServersKeep(n) == servers
\* _cleanup_server: del self.servers[server_name]
CleanupServers(n) == [servers EXCEPT ![n] = 0]

\* a return of a registry method: the return value, the frame's objects dropped
RegReturn(r, v, l) ==
  /\ rpc' = [rpc EXCEPT ![r] = "idle"]
  /\ ret' = [ret EXCEPT ![r] = v]
  /\ rloc' = [rloc EXCEPT ![r] = [l EXCEPT !.process = 0, !.client = 0]]

\* a start_server without the "already running" test
start_server_respawn(r, n, exists) ==
  /\ rpc[r] = "idle"
  /\ LET l == [NoRegLocals EXCEPT !.op = "start_server", !.name = n,
                                  !.untracked = ~Tracked(n),
                                  !.died = Tracked(n) /\ ~IsAlive(servers[n])] IN
       IF ~exists THEN RegReturn(r, "False", l) /\ UNCHANGED procs
       ELSE \E p \in Pids :
              /\ procs[p] = "none"
              /\ \A q \in Pids : procs[q] = "none" => p <= q
              /\ procs' = [procs EXCEPT ![p] = "alive"]
              /\ rpc' = [rpc EXCEPT ![r] = "start_settle"]
              /\ rloc' = [rloc EXCEPT ![r] = [l EXCEPT !.process = p]]
              /\ UNCHANGED ret
  /\ UNCHANGED <<cls, clientVars, servers, clients, client_running, client_lock>>

\* start_server up to subprocess.Popen
start_server(r, n, exists) ==
  /\ rpc[r] = "idle"
  /\ LET l == [NoRegLocals EXCEPT !.op = "start_server", !.name = n,
                                  !.untracked = ~Tracked(n),
                                  !.died = Tracked(n) /\ ~IsAlive(servers[n])] IN
       IF Tracked(n) THEN RegReturn(r, "True", l) /\ UNCHANGED procs
       ELSE IF ~exists THEN RegReturn(r, "False", l) /\ UNCHANGED procs
       ELSE \E p \in Pids :
              /\ procs[p] = "none"
              /\ \A q \in Pids : procs[q] = "none" => p <= q
              /\ procs' = [procs EXCEPT ![p] = "alive"]
              /\ rpc' = [rpc EXCEPT ![r] = "start_settle"]
              /\ rloc' = [rloc EXCEPT ![r] = [l EXCEPT !.process = p]]
              /\ UNCHANGED ret
  /\ UNCHANGED <<cls, clientVars, servers, clients, client_running, client_lock>>

\* start_server after the settle sleep: the liveness check, then the entry
StartSettle(r) ==
  /\ rpc[r] = "start_settle"
  /\ IF ~IsAlive(rloc[r].process)
     THEN RegReturn(r, "False", rloc[r]) /\ UNCHANGED servers
     ELSE /\ servers' = [servers EXCEPT ![rloc[r].name] = rloc[r].process]
          /\ rpc' = [rpc EXCEPT ![r] = "start_client"]
          /\ UNCHANGED <<rloc, ret>>
  /\ UNCHANGED <<cls, clientVars, clients, procs, client_running, client_lock>>

\* start_server: self.clients[server_name] = Client(process)
StartClient(r) ==
  /\ rpc[r] = "start_client"
  /\ \/ /\ clients' = [clients EXCEPT ![rloc[r].name] = rloc[r].process]
        /\ client_running' = [client_running EXCEPT ![rloc[r].process] = TRUE]
        /\ rpc' = [rpc EXCEPT ![r] = "start_test"]
        /\ UNCHANGED <<servers, procs, rloc, ret>>
     \/ \* the constructor raises (its reader thread cannot be started).
        \* Fixed: the inner except calls _cleanup_server and returns False;
        \* Enhanced: the outer except returns False
        /\ IF cls = Fixed
           THEN /\ procs' = CleanupProcs(rloc[r].name)
                /\ servers' = CleanupServers(rloc[r].name)
           ELSE UNCHANGED <<procs, servers>>
        /\ RegReturn(r, "False", rloc[r])
        /\ UNCHANGED <<clients, client_running>>
  /\ UNCHANGED <<cls, clientVars, client_lock>>

\* start_server: the smoke test call through the registered client
StartTest(r) ==
  /\ rpc[r] = "start_test"
  /\ IF cls = Fixed /\ ~HasClient(rloc[r].name)
     THEN \* _test_server_connection: "Client not available", logged
          RegReturn(r, "True", [rloc[r] EXCEPT !.test_response = "client_not_available"])
     ELSE IF rloc[r].name \notin KnownNames
     THEN \* "Unknown server type", logged
          RegReturn(r, "True", [rloc[r] EXCEPT !.test_response = "unknown_server_type"])
     ELSE IF HasClient(rloc[r].name)
     THEN /\ rpc' = [rpc EXCEPT ![r] = "r_call_tool"]
          /\ rloc' = [rloc EXCEPT ![r].client = clients[rloc[r].name]]
          /\ UNCHANGED ret
     ELSE \* Enhanced: self.clients[server_name] raises KeyError, caught
          RegReturn(r, "False", rloc[r])
  /\ UNCHANGED <<cls, clientVars, servers, clients, procs, client_running, client_lock>>

\* call_server_tool(server_name, tool_name, arguments): the guard
\* "server_name not in self.clients"
call_server_tool(r, n) ==
  /\ rpc[r] = "idle"
  /\ LET l == [NoRegLocals EXCEPT !.op = "call_server_tool", !.name = n,
                                  !.untracked = ~Tracked(n),
                                  !.died = Tracked(n) /\ ~IsAlive(servers[n])] IN
       IF ~HasClient(n)
       THEN RegReturn(r, "not_running", l)
       ELSE /\ rpc' = [rpc EXCEPT ![r] = "r_lookup"]
            /\ rloc' = [rloc EXCEPT ![r] = l]
            /\ UNCHANGED ret
  /\ UNCHANGED <<cls, clientVars, servers, clients, procs, client_running, client_lock>>

\* call_server_tool: client = self.clients[server_name], outside any try: a
\* name deleted since the guard raises KeyError to the caller
CallLookup(r) ==
  /\ rpc[r] = "r_lookup"
  /\ IF HasClient(rloc[r].name)
     THEN /\ rpc' = [rpc EXCEPT ![r] = "r_call_tool"]
          /\ rloc' = [rloc EXCEPT ![r].client = clients[rloc[r].name]]
          /\ UNCHANGED ret
     ELSE RegReturn(r, "raised", rloc[r])
  /\ UNCHANGED <<cls, clientVars, servers, clients, procs, client_running, client_lock>>

\* client.call_tool: with self.lock (FixedMCPClient only)
CallEnter(r) ==
  /\ rpc[r] = "r_call_tool"
  /\ IF cls = Fixed
     THEN /\ client_lock[rloc[r].client] = 0
          /\ client_lock' = [client_lock EXCEPT ![rloc[r].client] = r]
     ELSE UNCHANGED client_lock
  /\ rpc' = [rpc EXCEPT ![r] = "r_send"]
  /\ UNCHANGED <<cls, clientVars, servers, clients, procs, client_running, rloc, ret>>

\* a return of client.call_tool after which start_server returns what the
\* smoke test found
CallReturnTestDecides(r, v, l) ==
  /\ RegReturn(r, IF l.op = "start_server"
                  THEN (IF v = "response" THEN "True" ELSE "False")
                  ELSE v,
               IF l.op = "start_server" THEN [l EXCEPT !.test_response = v] ELSE l)
  /\ client_lock' = [client_lock EXCEPT ![l.client] = IF @ = r THEN 0 ELSE @]

\* a return of client.call_tool: the lock is released; start_server
\* returns True whatever the smoke test returned
CallReturn(r, v, l) ==
  /\ RegReturn(r, IF l.op = "start_server" THEN "True" ELSE v,
               IF l.op = "start_server" THEN [l EXCEPT !.test_response = v] ELSE l)
  /\ client_lock' = [client_lock EXCEPT ![l.client] = IF @ = r THEN 0 ELSE @]

\* client.call_tool: the write to the child's stdin; the pipe of a dead
\* child is broken
CallSend(r) ==
  /\ rpc[r] = "r_send"
  /\ LET l == [rloc[r] EXCEPT !.wrote = TRUE] IN
       IF IsAlive(rloc[r].client)
       THEN /\ rpc' = [rpc EXCEPT ![r] = "r_wait"]
            /\ rloc' = [rloc EXCEPT ![r] = l]
            /\ UNCHANGED <<ret, client_lock>>
       ELSE CallReturn(r, "communication_error", l)
  /\ UNCHANGED <<cls, clientVars, servers, clients, procs, client_running>>

\* client.call_tool: the wait ends with a response, a remote error or the timeout
CallWait(r) ==
  /\ rpc[r] = "r_wait"
  /\ \E v \in {"response", "mcp_error", "timeout"} : CallReturn(r, v, rloc[r])
  /\ UNCHANGED <<cls, clientVars, servers, clients, procs, client_running>>

\* FixedMCPServerManager.get_server_status
Fixed_get_server_status(r, n) ==
  LET l == [NoRegLocals EXCEPT !.op = "get_server_status", !.name = n] IN
    IF ~Tracked(n) THEN RegReturn(r, "stopped", l) /\ UNCHANGED servers
    ELSE IF ~IsAlive(servers[n])
         THEN RegReturn(r, "stopped", l) /\ servers' = CleanupServers(n)
         ELSE RegReturn(r, "running", l) /\ UNCHANGED servers

\* EnhancedMCPServerManager.get_server_status
Enhanced_get_server_status(r, n) ==
  LET l == [NoRegLocals EXCEPT !.op = "get_server_status", !.name = n] IN
    /\ IF ~Tracked(n) THEN RegReturn(r, "stopped", l)
       ELSE RegReturn(r, IF IsAlive(servers[n]) THEN "running" ELSE "stopped", l)
    /\ UNCHANGED servers

get_server_status(r, n) ==
  /\ rpc[r] = "idle"
  /\ IF cls = Fixed THEN Fixed_get_server_status(r, n) ELSE Enhanced_get_server_status(r, n)
  /\ UNCHANGED <<cls, clientVars, clients, procs, client_running, client_lock>>

\* stop_server up to del self.clients[server_name]: client.close() marks the
\* client inactive and terminates (or kills) a live child
stop_server(r, n) ==
  /\ rpc[r] = "idle"
  /\ LET l == [NoRegLocals EXCEPT !.op = "stop_server", !.name = n,
                                  !.untracked = ~Tracked(n)] IN
       IF ~Tracked(n)
       THEN RegReturn(r, "False", l) /\ UNCHANGED <<clients, procs, client_running>>
       ELSE /\ rpc' = [rpc EXCEPT ![r] = "stop_cleanup"]
            /\ rloc' = [rloc EXCEPT ![r] = l]
            /\ UNCHANGED ret
            /\ IF HasClient(n)
               THEN /\ client_running' = [client_running EXCEPT ![clients[n]] = FALSE]
                    /\ procs' = [procs EXCEPT ![clients[n]] = "dead"]
                    /\ clients' = [clients EXCEPT ![n] = 0]
               ELSE UNCHANGED <<clients, procs, client_running>>
  /\ UNCHANGED <<cls, clientVars, servers, client_lock>>

\* stop_server: the process is terminated and the entry deleted
StopCleanup(r) ==
  /\ rpc[r] = "stop_cleanup"
  /\ IF Tracked(rloc[r].name)
     THEN /\ procs' = CleanupProcs(rloc[r].name)
          /\ servers' = CleanupServers(rloc[r].name)
          /\ RegReturn(r, "True", rloc[r])
     ELSE \* Fixed: _cleanup_server does nothing; Enhanced: KeyError, caught
          /\ RegReturn(r, IF cls = Fixed THEN "True" ELSE "False", rloc[r])
          /\ UNCHANGED <<procs, servers>>
  /\ UNCHANGED <<cls, clientVars, clients, client_running, client_lock>>

\* stop_all, from call to return.  EnhancedMCPServerManager first closes
\* every client in self.clients; both managers then call stop_server for
\* every name in self.servers (close and delete its client, terminate its
\* process, delete its entry).
stop_all(r) ==
  /\ rpc[r] = "idle"
  /\ LET tracked == {n \in Names : Tracked(n)}
         closed == {clients[n] : n \in {m \in Names : HasClient(m) /\ (cls = App \/ Tracked(m))}}
         killed == closed \cup {servers[n] : n \in tracked}
     IN /\ client_running' = [p \in Pids |-> IF p \in closed THEN FALSE ELSE client_running[p]]
        /\ procs' = [p \in Pids |-> IF p \in killed /\ IsAlive(p) THEN "dead" ELSE procs[p]]
        /\ clients' = [n \in Names |-> IF n \in tracked THEN 0 ELSE clients[n]]
        /\ servers' = [n \in Names |-> 0]
  /\ RegReturn(r, "None", [NoRegLocals EXCEPT !.op = "stop_all"])
  /\ UNCHANGED <<cls, clientVars, client_lock>>

\* a child process exits on its own
ProcessExit(p) ==
  /\ IsAlive(p)
  /\ procs' = [procs EXCEPT ![p] = "dead"]
  /\ UNCHANGED <<cls, clientVars, servers, clients, client_running, client_lock, rpc, rloc, ret>>

RegistryOp ==
  \E r \in Threads : \E n \in KnownNames :
    \/ \E exists \in BOOLEAN : start_server(r, n, exists)
    \/ call_server_tool(r, n)
    \/ get_server_status(r, n)
    \/ stop_server(r, n)
RegistryStep ==
  \E r \in Threads :
    \/ StartSettle(r) \/ StartClient(r) \/ StartTest(r)
    \/ CallLookup(r) \/ CallEnter(r) \/ CallSend(r) \/ CallWait(r)
    \/ StopCleanup(r)
NextRegistry == RegistryOp \/ RegistryStep \/ (\E p \in Pids : ProcessExit(p))

SpecRegistry == Init /\ [][NextRegistry]_vars

\* The registry used by one caller at a time: every method returns before
\* the next one is called; the children still exit when they want.
SeqOp ==
  \E n \in Names :
    \/ \E exists \in BOOLEAN : start_server(FirstThread, n, exists)
    \/ call_server_tool(FirstThread, n)
    \/ get_server_status(FirstThread, n)
    \/ stop_server(FirstThread, n)
SeqStep ==
  \/ StartSettle(FirstThread) \/ StartClient(FirstThread) \/ StartTest(FirstThread)
  \/ CallLookup(FirstThread) \/ CallEnter(FirstThread) \/ CallSend(FirstThread) \/ CallWait(FirstThread)
  \/ StopCleanup(FirstThread)
NextRegistrySeq == SeqOp \/ SeqStep \/ stop_all(FirstThread) \/ (\E p \in Pids : ProcessExit(p))

SpecRegistrySeq == Init /\ [][NextRegistrySeq]_vars

\* ================================================================ claims
Done(t) == pc[t] = "done"
IsToolsCall(r) == r.method = "tools/call"

\* C1: every call that returns a non-error result returns the response whose
\* id is the id written in its own request, never the answer to another
\* call's request.
C1_ReturnsOwnResponse ==
  \A t \in Threads :
    Done(t) /\ result[t].kind = "response"
      => result[t].msg.has_id /\ result[t].msg.id = loc[t].request.id

\* C2: the ids of the tools/call requests of one client are strictly
\* increasing in the order the requests are written, so no two requests
\* carry the same id.
C2_IdsStrictlyIncreasing ==
  \A i, j \in 1..Len(stdin) :
    i < j /\ IsToolsCall(stdin[i]) /\ IsToolsCall(stdin[j]) => stdin[i].id < stdin[j].id

\* the section that allocates the id, writes the request line and flushes it
InWriteSection(t) == pc[t] \in {"alloc", "inc_store", "build", "send", "flush"}

\* C3: at most one caller at a time is inside the section that allocates an
\* id and writes and flushes the request line.
C3_OneWriterAtATime ==
  \A t, u \in Threads : InWriteSection(t) /\ InWriteSection(u) => t = u

\* C4: the lock that guards id allocation and the write is not held while a
\* call waits for its response.
C4_LockFreeWhileWaiting ==
  \A t \in Threads : Waiting(t) => lock # t

\* a message carrying id k has been put on the delivery queue
Delivered(k) == \E i \in 1..Len(published) : published[i].has_id /\ published[i].id = k

\* C5: a call that started waiting and for whose request id no message was
\* ever delivered returns the timeout error, no earlier than its timeout and
\* no later than its timeout plus one polling interval after it started
\* waiting.
C5_TimeoutWithinBounds ==
  \A t \in Threads :
    Done(t) /\ loc[t].waited /\ ~Delivered(loc[t].request.id)
      => /\ result[t] = TimeoutError
         /\ loc[t].timeout <= loc[t].elapsed
         /\ loc[t].elapsed <= loc[t].timeout + PollInterval

\* C6: a call_server_tool invocation has returned by the time its timeout
\* ceiling (the timeout of its tool plus one polling interval) has passed
\* since it was invoked, whatever other invocations are in progress.
C6_ReturnsWithinCeiling ==
  \A t \in Threads :
    pc[t] # "idle" => loc[t].since_invoke <= TimeoutFor(loc[t].tool) + PollInterval

\* C7: the arguments of every request written are a mapping: the caller's
\* mapping unchanged, and the empty mapping when the caller passed nothing,
\* None or a value that is no mapping.
C7_ArgumentsAreObject ==
  \A t \in Threads :
    loc[t].wrote
      => loc[t].request.arguments = (IF IsDict(loc[t].given) THEN loc[t].given ELSE "empty_dict")

\* str.split("\n"): the segments between the newlines of a text
RECURSIVE Split(_)
Split(s) ==
  IF ~HasNewline(s) THEN <<s>>
  ELSE <<SubSeq(s, 1, FirstNewline(s) - 1)>> \o Split(SubSeq(s, FirstNewline(s) + 1, Len(s)))

\* the objects of the segments that parse, in order
RECURSIVE ObjectsOf(_)
ObjectsOf(ls) ==
  IF ls = <<>> THEN <<>>
  ELSE (IF IsJson(Strip(Head(ls))) THEN <<Loads(Strip(Head(ls)))>> ELSE <<>>) \o ObjectsOf(Tail(ls))

\* the part of the child's output the reader has taken as lines
Consumed == SubSeq(emitted, 1, Len(emitted) - Len(stdout) - Len(buffer))
Malformed(l) == Strip(l) # <<>> /\ ~IsJson(Strip(l))

\* C8: a line that is not valid JSON is discarded: the objects published are
\* exactly the objects of the lines that parse (nothing is published for a
\* malformed line, and the valid lines after it are published), the reader
\* stops only when the client is closed or the child has exited, and every
\* message a call returns is one of the published objects.
C8_MalformedLineDiscarded ==
  /\ published = ObjectsOf(Split(Consumed))
  /\ reader_pc = "stopped" => ~(running /\ alive)
  /\ \A t \in Threads :
       Done(t) /\ result[t].kind \in {"response", "mcp_error"}
         => \E i \in 1..Len(published) : published[i] = result[t].msg

\* a malformed line was read, a valid line after it was published, and a call
\* has returned a response
C8_Witness ==
  /\ \E i, j \in 1..Len(Split(Consumed)) :
       i < j /\ Malformed(Split(Consumed)[i]) /\ IsJson(Strip(Split(Consumed)[j]))
  /\ \E t \in Threads : Done(t) /\ result[t].kind = "response"

\* C9: a call_server_tool invoked on a name that is not tracked (never
\* started, stopped, or dead and reaped by a status query) returns the
\* not-running error in that same step: it never reaches the client, writes
\* nothing and waits for nothing.
C9_ErrorWhenNoLiveCorrelator ==
  \A r \in Threads :
    rloc[r].op = "call_server_tool" /\ rloc[r].untracked
      => rpc[r] = "idle" /\ ret[r] = "not_running" /\ ~rloc[r].wrote

\* C10: get_server_status on a tracked name whose process has exited reports
\* stopped and leaves the name untracked; on an untracked name it reports
\* stopped and changes nothing.
C10_StatusReapsDeadServer ==
  [][\A r \in Threads : \A n \in Names :
       get_server_status(r, n) =>
         /\ (Tracked(n) /\ ~IsAlive(servers[n]) => ret'[r] = "stopped" /\ servers'[n] = 0)
         /\ (~Tracked(n) => ret'[r] = "stopped" /\ UNCHANGED <<servers, clients, procs>>)]_vars

\* C11: stop_server on a name that is not tracked returns success and leaves
\* the servers and clients maps as they were.
C11_StopUntrackedSucceeds ==
  [][\A r \in Threads : \A n \in Names :
       stop_server(r, n) /\ ~Tracked(n) => ret'[r] = "True" /\ UNCHANGED <<servers, clients>>]_vars

\* C12: an entry whose status field is 'running' has a live child process,
\* whenever the child exits.
C12_RunningHasLiveProcess ==
  \A n \in Names : EntryStatus(n) = "running" => IsAlive(servers[n])

\* C13: start_server on a name that is already tracked returns True in that
\* step, spawns no process and leaves the name's entry and its client (and
\* every other entry and client) unchanged.
C13_StartTrackedIsNoOp ==
  [][\A r \in Threads : \A n \in Names : \A exists \in BOOLEAN :
       start_server(r, n, exists) /\ Tracked(n)
         => /\ rpc'[r] = "idle"
            /\ ret'[r] = "True"
            /\ UNCHANGED <<servers, clients, procs, client_running, client_lock>>]_vars

\* start_server was called on a tracked name and has returned True
C13_Witness ==
  \E r \in Threads :
    /\ rloc[r].op = "start_server" /\ ~rloc[r].untracked
    /\ rpc[r] = "idle" /\ ret[r] = "True"
    /\ Tracked(rloc[r].name) /\ HasClient(rloc[r].name)

\* C14: under every interleaving of start_server and stop_server, every live
\* child process is the process of an entry of the map, or is the process a
\* start_server in progress is about to store: none is spawned and then
\* left untracked or overwritten by another entry for the same name.
C14_SpawnedChildIsTracked ==
  \A p \in Pids :
    IsAlive(p) => \/ \E n \in Names : servers[n] = p
                  \/ \E r \in Threads : rpc[r] = "start_settle" /\ rloc[r].process = p

C16_StopAllStopsEverything ==
  \A r \in Threads :
    rloc[r].op = "stop_all"
      => /\ \A n \in Names : ~(HasClient(n) /\ client_running[clients[n]])
         /\ \A n \in Names : Tracked(n) => ~IsAlive(servers[n])

\* C17: close() marks the client inactive and leaves the child not alive,
\* and a close() after the first one changes nothing of the client, the
\* child or the registry.
C17_CloseIsIdempotent ==
  [][close =>
       /\ ~running' /\ ~alive'
       /\ closes >= 1 =>
            UNCHANGED <<running, alive, request_id, lock, response_queue, stdin, stdout, emitted,
                        buffer, reader_pc, answered, noise, published, pc, loc, result, regVars>>]_vars

\* close() has been called twice
C17_Witness == closes >= 2 /\ ~running /\ ~alive

\* C18: a call whose wait took a message carrying the id of its request off
\* the queue returns the error result carrying that message when the message
\* has an error payload, and the message itself as the success result when
\* it has none.
C18_ErrorPayloadIsErrorResult ==
  \A t \in Threads :
    Done(t) /\ loc[t].waited /\ loc[t].response.has_id /\ loc[t].response.id = loc[t].request.id
      => result[t] = (IF loc[t].response.err THEN McpError(loc[t].response)
                                             ELSE Success(loc[t].response))

\* a call has returned the error result for a message with an error payload
C18_Witness ==
  \E t \in Threads :
    Done(t) /\ result[t].kind = "mcp_error" /\ result[t].msg.err
            /\ result[t].msg.id = loc[t].request.id

\* C19: no call of call_server_tool, start_server or stop_server ends with an
\* exception raised to its caller.
C19_NoExceptionPropagates ==
  \A r \in Threads : ret[r] # "raised"

\* C20: the step in which a call returns the timeout error leaves the child
\* alive or dead as it was, the client's running flag, the reader and the
\* registry's maps and processes unchanged.
C20_TimeoutLeavesChildAlone ==
  [][\A t \in Threads :
       Loop(t) /\ result'[t] = TimeoutError
         => UNCHANGED <<running, alive, reader_pc, stdin, servers, clients, procs, client_running>>]_vars

\* a call has timed out while the child is alive, the client active and the
\* reader running
C20_Witness ==
  \E t \in Threads :
    Done(t) /\ result[t] = TimeoutError /\ running /\ alive /\ reader_pc # "stopped"

\* C21: the requests are on the child's stdin in the order their ids were
\* allocated: no tools/call request with a larger id is written before one
\* with a smaller id.
C21_WireOrderIsAllocationOrder ==
  \A i, j \in 1..Len(stdin) :
    i < j /\ IsToolsCall(stdin[i]) /\ IsToolsCall(stdin[j]) => ~(stdin[i].id > stdin[j].id)

\* a message is on the delivery queue, in the hands of a waiting call, or
\* has been returned by a call
Available(m) ==
  \/ \E i \in 1..Len(response_queue) : response_queue[i] = m
  \/ \E t \in Threads : pc[t] = "match" /\ loc[t].response = m
  \/ \E t \in Threads : Done(t) /\ result[t].msg = m

\* C22: a response the reader has published is never lost: until a call
\* returns it, it is on the delivery queue or in the hands of a call that is
\* about to test its id (and puts it back when the id is not its own).
C22_PublishedResponseNotLost ==
  \A i \in 1..Len(published) :
    published[i].has_id => Available(published[i])

\* the characters the reader has taken from the child's stdout
ReadSoFar == SubSeq(emitted, 1, Len(emitted) - Len(stdout))
\* the newline-terminated lines of a text: every segment but the last
CompleteLines(s) == SubSeq(Split(s), 1, Len(Split(s)) - 1)

\* C25: while the child is alive and the client running, the objects
\* published are the objects of the newline-terminated lines read so far
\* that parse as JSON, in order, the text after the last newline is not
\* published, and the reader is still reading, so that the lines still to
\* come are published too.
C25_PublishedEqualsParsedLines ==
  alive /\ running
    => /\ published = ObjectsOf(CompleteLines(ReadSoFar))
       /\ reader_pc # "stopped"

\* C26: once the child has exited or close() has marked the client inactive
\* the reader thread terminates, and a terminated reader publishes nothing.
C26_ReaderTerminates ==
  /\ (~alive \/ ~running) ~> (reader_pc = "stopped")
  /\ [][reader_pc = "stopped" => reader_pc' = "stopped" /\ published' = published]_vars

\* the reader has terminated after the child exited, leaving output unread
C26_Witness == reader_pc = "stopped" /\ ~alive /\ running /\ stdout # <<>>

\* the handshake __init__ has written: the initialize request, then the
\* initialized notification
Handshake == <<InitRequest, InitializedNotification>>
HasHandshake == Len(stdin) >= Len(Handshake) /\ SubSeq(stdin, 1, Len(Handshake)) = Handshake

\* C23: on every client, the initialize request and the initialized
\* notification are written to the child before any tools/call request.
C23_HandshakePrecedesToolsCall ==
  \A i \in 1..Len(stdin) :
    IsToolsCall(stdin[i]) => i > Len(Handshake) /\ HasHandshake

\* C24: every tools/call id is above the handshake's id 0, the first one is
\* 1, and the response to the initialize request is never returned as the
\* result of a tool call.
C24_ToolIdsAboveHandshakeId ==
  /\ \A i \in 1..Len(stdin) :
       IsToolsCall(stdin[i]) =>
         /\ stdin[i].id > InitRequest.id
         /\ (\A j \in 1..(i - 1) : ~IsToolsCall(stdin[j])) => stdin[i].id = 1
  /\ \A t \in Threads :
       Done(t) /\ result[t].kind \in {"response", "mcp_error"} =>
         result[t].msg.id # InitRequest.id

\* the response to the initialize request has reached the queue and a tool
\* call has returned its own response
C24_Witness ==
  /\ cls = Fixed
  /\ \E i \in 1..Len(published) : published[i].has_id /\ published[i].id = InitRequest.id
  /\ \E t \in Threads : Done(t) /\ result[t].kind = "response" /\ result[t].msg.id = 1

\* the constructor has returned without a complete handshake on the wire
HandshakeFailed ==
  cls = Fixed /\ init_pc = "done" /\ ~HasHandshake

\* C29: a failure during the handshake does not fail construction: the
\* constructor never leaves by an exception, and once it has started the
\* reader the client is running with its reader thread started.
C29_HandshakeFailureKeepsClient ==
  /\ init_pc \in {"new", "handshake", "sleep", "done"}
  /\ init_pc # "new" => running /\ reader_pc # "unstarted"

C29_Witness == HandshakeFailed /\ running /\ reader_pc # "unstarted"

\* C27: when start_server returns failure, the name is in neither map and
\* no live child is left untracked.
C27_FailedStartLeavesNoTrace ==
  \A r \in Threads :
    rpc[r] = "idle" /\ rloc[r].op = "start_server" /\ ret[r] = "False" =>
      /\ ~Tracked(rloc[r].name)
      /\ ~HasClient(rloc[r].name)
      /\ \A p \in Pids : IsAlive(p) => \E n \in Names : servers[n] = p

\* the start_server that has returned ran its smoke test and the test failed
SmokeTestFailed(r) ==
  /\ rpc[r] = "idle"
  /\ rloc[r].op = "start_server"
  /\ rloc[r].test_response \in {"timeout", "mcp_error", "communication_error", "unknown_server_type"}

\* C28: a start_server whose child was alive after the settle interval and
\* whose smoke test returned an error returns success and has left the name
\* with its process and its correlator.
C28_SmokeTestFailureIsNotFatal ==
  \A r \in Threads :
    rpc[r] = "idle" /\ rloc[r].op = "start_server" /\ rloc[r].test_response # "none" =>
      /\ ret[r] = "True"
      /\ Tracked(rloc[r].name)
      /\ HasClient(rloc[r].name)
      /\ servers[rloc[r].name] = clients[rloc[r].name]

C28_Witness ==
  /\ SmokeTestFailed(FirstThread)
  /\ ret[FirstThread] = "True"
  /\ Tracked(rloc[FirstThread].name) /\ HasClient(rloc[FirstThread].name)

\* C30: a call_server_tool on a tracked server whose process has died
\* reports "not running" and leaves the server untracked, without correlator.
C30_CallOnDeadServerHeals ==
  \A r \in Threads :
    rpc[r] = "idle" /\ rloc[r].op = "call_server_tool" /\ rloc[r].died =>
      /\ ret[r] = "not_running"
      /\ ~Tracked(rloc[r].name)
      /\ ~HasClient(rloc[r].name)

\* the answered requests that carry id k
Answers(k) == {i \in answered : stdin[i].id = k}

\* C31: a response that arrives after its call has returned the timeout error
\* is never returned by a later call as its own result.
C31_LateResponseNeverCollected ==
  \A t \in Threads :
    Done(t) /\ result[t].kind \in {"response", "mcp_error"} =>
      ~(Answers(result[t].msg.id) # {} /\ Answers(result[t].msg.id) \subseteq loc[t].late)

\* C32: while a call waits for its response, the id it compares incoming
\* responses against is the id it wrote in its own request.
C32_ComparesAgainstOwnId ==
  \A t \in Threads : Waiting(t) => request_id = loc[t].request.id

\* C33: every name that has a correlator in the clients map has a process
\* entry in the servers map.
C33_ClientsSubsetOfServers ==
  \A n \in Names : HasClient(n) => Tracked(n)

\* C34: a start_server for a name whose tracked child had exited, when it
\* returns success, leaves the name tracked with a live process and a
\* correlator bound to that process.
C34_RestartAfterExitIsLive ==
  \A r \in Threads :
    rpc[r] = "idle" /\ rloc[r].op = "start_server" /\ rloc[r].died /\ ret[r] = "True" =>
      /\ Tracked(rloc[r].name)
      /\ IsAlive(servers[rloc[r].name])
      /\ clients[rloc[r].name] = servers[rloc[r].name]

\* the processes a name's entries refer to
ProcessesOf(m) == {servers[m], clients[m]} \ {0}

====
